---------------------------- MODULE Spec2Model ----------------------------
(***************************************************************************)
(* Model of carnet_prises.py: the catch log kept in carnet_prises.csv, the *)
(* photos directory, the memoised load_data and the three mutating         *)
(* handlers of main() (add, edit, delete), plus parse_time_from_text.      *)
(*                                                                         *)
(* Text is a sequence of one-character strings, so that strip, split,      *)
(* zfill, replace and the CSV conversion are computed character by         *)
(* character as the code computes them.  A number entered through          *)
(* st.number_input is a Python float; it is represented by its decimal     *)
(* text, which to_csv writes and read_csv parses back to the same float.   *)
(* Free-text inputs are drawn from non-numeric text, which read_csv        *)
(* returns as the text itself when it is not empty.                        *)
(***************************************************************************)
EXTENDS Integers, Sequences, FiniteSets, TLC

VARIABLES
    file,        \* carnet_prises.csv on disk (DATA_FILE)
    cache,       \* the memo of @st.cache_data around load_data
    df,          \* the table main() holds when the script run ends
    photos,      \* the files of PHOTOS_DIR: name -> content
    now,         \* datetime.now(), in seconds
    msgs,        \* what the last script run reported (st.error, st.success)
    field_value, \* the text handed to parse_time_from_text
    parsed       \* what parse_time_from_text made of field_value

vars == <<file, cache, df, photos, now, msgs, field_value, parsed>>

---------------------------------------------------------------------------
(* Bounds of the model. *)

MaxRows == 2
MaxClock == 1
MaxLen == 5

---------------------------------------------------------------------------
(* Text. *)

Digits == {"0", "2", "5", "7", "9"}

Whitespace == {" "}

Alphabet == Digits \cup {":", " ", "-"}

DigitVal(c) ==
    CASE c = "0" -> 0 [] c = "1" -> 1 [] c = "2" -> 2 [] c = "3" -> 3
      [] c = "4" -> 4 [] c = "5" -> 5 [] c = "6" -> 6 [] c = "7" -> 7
      [] c = "8" -> 8 [] c = "9" -> 9

DigitChar(n) ==
    CASE n = 0 -> "0" [] n = 1 -> "1" [] n = 2 -> "2" [] n = 3 -> "3"
      [] n = 4 -> "4" [] n = 5 -> "5" [] n = 6 -> "6" [] n = 7 -> "7"
      [] n = 8 -> "8" [] n = 9 -> "9"

AllDigits == {"0", "1", "2", "3", "4", "5", "6", "7", "8", "9"}

RECURSIVE lstrip(_)
lstrip(s) ==
    IF s # <<>> /\ Head(s) \in Whitespace THEN lstrip(Tail(s)) ELSE s

RECURSIVE rstrip(_)
rstrip(s) ==
    IF s # <<>> /\ s[Len(s)] \in Whitespace
    THEN rstrip(SubSeq(s, 1, Len(s) - 1))
    ELSE s

(* str.strip() *)
strip(s) == rstrip(lstrip(s))

(* str.split(sep): the pieces between the occurrences of sep. *)
RECURSIVE split(_, _)
split(s, sep) ==
    IF \E i \in 1..Len(s) : s[i] = sep
    THEN LET i == CHOOSE k \in 1..Len(s) :
                      s[k] = sep /\ \A j \in 1..(k - 1) : s[j] # sep
         IN  <<SubSeq(s, 1, i - 1)>> \o split(SubSeq(s, i + 1, Len(s)), sep)
    ELSE <<s>>

(* str.zfill(width): zeros on the left, after a leading sign. *)
RECURSIVE zfill(_, _)
zfill(s, width) ==
    IF Len(s) >= width THEN s
    ELSE IF s # <<>> /\ Head(s) \in {"+", "-"}
         THEN <<Head(s)>> \o zfill(Tail(s), width - 1)
         ELSE zfill(<<"0">> \o s, width)

(* str.replace(old, new) for one-character old and new. *)
replace(s, old, new) ==
    [i \in 1..Len(s) |-> IF s[i] = old THEN new ELSE s[i]]

(* time.strftime("%H:%M") and the two-digit fields of strftime. *)
TwoDigits(n) == <<DigitChar(n \div 10), DigitChar(n % 10)>>

strftime_HM(t) == TwoDigits(t.hour) \o <<":">> \o TwoDigits(t.minute)

---------------------------------------------------------------------------
(* parse_time_from_text. *)

ValueError == [ok |-> FALSE, hour |-> 0, minute |-> 0]

Time(h, m) == [ok |-> TRUE, hour |-> h, minute |-> m]

(* Whether the directive %H matches n characters at position p: the        *)
(* regular expression 2[0-3]|[0-1]\d|\d of _strptime.                      *)
MatchH(s, p, n) ==
    /\ p + n - 1 <= Len(s)
    /\ \A k \in p..(p + n - 1) : s[k] \in AllDigits
    /\ n = 2 => \/ s[p] = "2" /\ s[p + 1] \in {"0", "1", "2", "3"}
                \/ s[p] \in {"0", "1"}

(* %M: [0-5]\d|\d *)
MatchM(s, p, n) ==
    /\ p + n - 1 <= Len(s)
    /\ \A k \in p..(p + n - 1) : s[k] \in AllDigits
    /\ n = 2 => s[p] \in {"0", "1", "2", "3", "4", "5"}

Number(s, p, n) ==
    IF n = 1 THEN DigitVal(s[p]) ELSE 10 * DigitVal(s[p]) + DigitVal(s[p + 1])

(* datetime.strptime(s, "%H:%M").time(): the first match of the format's   *)
(* regular expression, the longer alternative of each directive first, and *)
(* ValueError when nothing matches or when text remains after the match.   *)
strptime_HM(s) ==
    LET Matches(hn, mn) ==
            /\ MatchH(s, 1, hn)
            /\ hn + 1 <= Len(s) /\ s[hn + 1] = ":"
            /\ MatchM(s, hn + 2, mn)
        Pairs == <<<<2, 2>>, <<2, 1>>, <<1, 2>>, <<1, 1>>>>
        Found == {i \in 1..4 : Matches(Pairs[i][1], Pairs[i][2])}
    IN  IF Found = {} THEN ValueError
        ELSE LET i == CHOOSE k \in Found : \A j \in Found : k <= j
                 hn == Pairs[i][1]
                 mn == Pairs[i][2]
             IN  IF hn + 1 + mn # Len(s) THEN ValueError
                 ELSE Time(Number(s, 1, hn), Number(s, hn + 2, mn))

(* Variant: the lenient behaviour of parse_time_str, a time in place of    *)
(* the error.                                                              *)
parse_time_from_text_fallback(text) ==
    LET s == strip(text)
        parts == split(s, ":")
        normalised ==
            IF (\E i \in 1..Len(s) : s[i] = ":") /\ Len(parts) = 2
            THEN zfill(parts[1], 2) \o <<":">> \o zfill(parts[2], 2)
            ELSE s
        t == strptime_HM(normalised)
    IN  IF t.ok THEN t ELSE Time(0, 0)

(* Variant: the text is not stripped. *)
parse_time_from_text_nostrip(text) ==
    LET s == text
        parts == split(s, ":")
        normalised ==
            IF (\E i \in 1..Len(s) : s[i] = ":") /\ Len(parts) = 2
            THEN zfill(parts[1], 2) \o <<":">> \o zfill(parts[2], 2)
            ELSE s
    IN  strptime_HM(normalised)

parse_time_from_text(text) ==
    LET s == strip(text)
        parts == split(s, ":")
        normalised ==
            IF (\E i \in 1..Len(s) : s[i] = ":") /\ Len(parts) = 2
            THEN zfill(parts[1], 2) \o <<":">> \o zfill(parts[2], 2)
            ELSE s
    IN  strptime_HM(normalised)

---------------------------------------------------------------------------
(* The table: pandas DataFrames and the CSV file. *)

COLUMNS ==
    <<"date", "heure", "espece", "taille_cm", "poids", "unite_poids", "spot",
      "type_leurre", "nom_leurre", "conditions", "remis_a_leau",
      "commentaire", "photo_fichier">>

Range(s) == {s[i] : i \in 1..Len(s)}

(* float("nan"), what read_csv makes of an empty field.  No text entered   *)
(* by the user is this value.                                              *)
NaN == <<"NaN">>

EmptyText == <<>>

DataFrame(columns, rows) == [columns |-> columns, rows |-> rows]

(* No file: DATA_FILE.exists() is false. *)
NoFile == [exists |-> FALSE, header |-> <<>>, lines |-> <<>>]

(* pd.read_csv(DATA_FILE, sep=";"): the header names the columns, and an   *)
(* empty field is NaN.                                                     *)
read_csv(f) ==
    DataFrame(f.header,
              [i \in 1..Len(f.lines) |->
                  [c \in Range(f.header) |->
                      IF f.lines[i][c] = EmptyText THEN NaN
                      ELSE f.lines[i][c]]])

(* df.to_csv(DATA_FILE, sep=";", index=False): NaN is written as the       *)
(* empty field (na_rep=""), like the empty string.                         *)
to_csv(d) ==
    [exists |-> TRUE,
     header |-> d.columns,
     lines  |-> [i \in 1..Len(d.rows) |->
                    [c \in Range(d.columns) |->
                        IF d.rows[i][c] = NaN THEN EmptyText
                        ELSE d.rows[i][c]]]]

(* for col in COLUMNS: if col not in df.columns: df[col] = "" *)
BackfillColumns(d) ==
    LET missing == SelectSeq(COLUMNS, LAMBDA c : c \notin Range(d.columns))
    IN  DataFrame(d.columns \o missing,
                  [i \in 1..Len(d.rows) |->
                      [c \in Range(d.columns) \cup Range(missing) |->
                          IF c \in Range(d.columns) THEN d.rows[i][c]
                          ELSE EmptyText]])

(* Variant: the columns are left as read. *)
SelectColumns_skipped(d) == d

(* df[COLUMNS] *)
SelectColumns(d) ==
    DataFrame(COLUMNS,
              [i \in 1..Len(d.rows) |-> [c \in Range(COLUMNS) |-> d.rows[i][c]]])

(* The body of load_data, without the memo. *)
load_data(f) ==
    SelectColumns(BackfillColumns(
        IF f.exists THEN read_csv(f) ELSE DataFrame(COLUMNS, <<>>)))

(* @st.cache_data: the memo of load_data; each call returns a copy. *)
EmptyCache == [valid |-> FALSE, value |-> DataFrame(<<>>, <<>>)]

cached_load_data(f, c) == IF c.valid THEN c.value ELSE load_data(f)

(* Variant: the memo is not cleared. *)
cache_data_clear_skipped(c) == c

(* st.cache_data.clear() *)
cache_data_clear(c) == EmptyCache

(* save_data: to_csv, or the file left as it is on PermissionError. *)
save_data(d, f, locked) == IF locked THEN f ELSE to_csv(d)

---------------------------------------------------------------------------
(* The photos directory. *)

PHOTOS_DIR == <<"p", "h", "o", "t", "o", "s">>

NoUpload == [name |-> <<>>, content |-> "None"]

(* datetime.now().strftime("%Y%m%d_%H%M%S"); the clock of the model reads  *)
(* 2024-06-01 06:30:00 plus now seconds.                                   *)
Timestamp(t) ==
    <<"2", "0", "2", "4", "0", "6", "0", "1", "_", "0", "6", "3", "0">>
        \o TwoDigits(t)

(* Variant: the name without the timestamp. *)
PhotoFilename_untimed(t, name) == replace(name, " ", "_")

(* filename = f"{timestamp}_{safe_name}" *)
PhotoFilename(t, name) == Timestamp(t) \o <<"_">> \o replace(name, " ", "_")

(* str(PHOTOS_DIR / filename) *)
PhotoPath(filename) == PHOTOS_DIR \o <<"/">> \o filename

(* Variant: the path is returned and nothing is written. *)
enregistrer_photo_unwritten(upload, t, ph) ==
    IF upload = NoUpload THEN [path |-> EmptyText, photos |-> ph]
    ELSE [path   |-> PHOTOS_DIR \o <<"/">> \o Timestamp(t) \o <<"_">>
                         \o replace(upload.name, " ", "_"),
          photos |-> ph]

(* enregistrer_photo(file): the path returned and the directory after. *)
enregistrer_photo(upload, t, ph) ==
    IF upload = NoUpload THEN [path |-> EmptyText, photos |-> ph]
    ELSE LET filename == PhotoFilename(t, upload.name)
         IN  [path   |-> PhotoPath(filename),
              photos |-> [f \in DOMAIN ph \cup {filename} |->
                             IF f = filename
                             THEN [content |-> upload.content, mtime |-> t]
                             ELSE ph[f]]]

---------------------------------------------------------------------------
(* What the user enters. *)

T_date     == <<"2", "0", "2", "4", "-", "0", "6", "-", "0", "1">>
T_Bar      == <<"B", "a", "r">>
T_Lieu     == <<"L", "i", "e", "u">>
T_42       == <<"4", "2", ".", "0">>
T_1_2      == <<"1", ".", "2">>
T_kg       == <<"k", "g">>
T_LeHavre  == <<"L", "e", " ", "H", "a", "v", "r", "e">>
T_Jig      == <<"J", "i", "g">>
T_Oui      == <<"O", "u", "i">>
T_7_5      == <<"7", ":", "5">>
T_07_05    == <<"0", "7", ":", "0", "5">>
T_25_99    == <<"2", "5", ":", "9", "9">>

(* The widgets of a form, the photo uploader apart.  date is the text of   *)
(* date_input's value under strftime("%Y-%m-%d"), taille and poids the     *)
(* decimal text of number_input's float.                                   *)
Forms ==
    [date : {T_date}, heure_str : {T_7_5, T_25_99},
     espece : {T_Bar, T_Lieu}, taille : {T_42}, poids : {T_1_2},
     unite_poids : {T_kg}, spot : {T_LeHavre}, type_leurre : {T_Jig},
     nom_leurre : {EmptyText}, conditions : {EmptyText},
     remis_a_leau : {T_Oui}, commentaire : {EmptyText}]

(* Two photos whose names differ only by a space against an underscore. *)
Uploads ==
    {NoUpload,
     [name |-> <<"a", " ", "b">>, content |-> "img1"],
     [name |-> <<"a", "_", "b">>, content |-> "img2"]}

(* A file written by an earlier version: other column order, columns       *)
(* missing, one column more.                                               *)
LegacyFile ==
    [exists |-> TRUE,
     header |-> <<"espece", "date", "note">>,
     lines  |-> <<[espece |-> T_Bar, date |-> T_date, note |-> <<"x">>],
                  [espece |-> T_Lieu, date |-> T_date, note |-> EmptyText]>>]

InitialFiles == {NoFile, LegacyFile}

---------------------------------------------------------------------------
(* The script run: main(). *)

(* new_row of the add handler, and the thirteen df.loc assignments of the  *)
(* edit handler.                                                           *)
MakeRow(form, heure, photo_path) ==
    [date          |-> form.date,
     heure         |-> strftime_HM(heure),
     espece        |-> form.espece,
     taille_cm     |-> form.taille,
     poids         |-> form.poids,
     unite_poids   |-> form.unite_poids,
     spot          |-> form.spot,
     type_leurre   |-> form.type_leurre,
     nom_leurre    |-> form.nom_leurre,
     conditions    |-> form.conditions,
     remis_a_leau  |-> form.remis_a_leau,
     commentaire   |-> form.commentaire,
     photo_fichier |-> photo_path]

(* pd.concat([df, pd.DataFrame([new_row])], ignore_index=True) *)
concat(d, row) == DataFrame(d.columns, Append(d.rows, row))

(* df.loc[selected_id, col] = value, for every column *)
SetRow(d, i, row) == DataFrame(d.columns, [d.rows EXCEPT ![i] = row])

(* df.drop(index=selected_id).reset_index(drop=True) *)
DropRow(d, i) ==
    DataFrame(d.columns,
              SubSeq(d.rows, 1, i - 1) \o SubSeq(d.rows, i + 1, Len(d.rows)))

NotParsed == [ok |-> FALSE, hour |-> -1, minute |-> -1]

Init ==
    /\ file \in InitialFiles
    /\ cache = EmptyCache
    /\ df = DataFrame(<<>>, <<>>)
    /\ photos = <<>>
    /\ now = 0
    /\ msgs = {}
    /\ field_value = <<>>
    /\ parsed = NotParsed

(* The clock advances by a second. *)
Tick ==
    /\ now < MaxClock
    /\ now' = now + 1
    /\ UNCHANGED <<file, cache, df, photos, msgs, field_value, parsed>>

(* A run in which no button is pressed: df = load_data() and the page. *)
Visit ==
    /\ df' = cached_load_data(file, cache)
    /\ cache' = [valid |-> TRUE, value |-> df']
    /\ msgs' = {}
    /\ UNCHANGED <<file, photos, now, field_value, parsed>>

(* What follows save_data in the three handlers: st.cache_data.clear(),    *)
(* then load_data(), at once in add and edit and by st.rerun() in delete.  *)
Reload(f, c) ==
    LET cleared == cache_data_clear(c)
        loaded  == cached_load_data(f, cleared)
    IN  [df |-> loaded, cache |-> [valid |-> TRUE, value |-> loaded]]

(* The sidebar button "Enregistrer la prise". *)
AddCatch(form, photo_new, locked) ==
    LET df0 == cached_load_data(file, cache)
        heure_prise == parse_time_from_text(form.heure_str)
    IN  /\ heure_prise.ok => Len(df0.rows) < MaxRows
        /\ IF ~heure_prise.ok
           THEN /\ msgs' = {"heure_invalide"}
                /\ df' = df0
                /\ cache' = [valid |-> TRUE, value |-> df0]
                /\ UNCHANGED <<file, photos>>
           ELSE LET stored  == enregistrer_photo(photo_new, now, photos)
                    new_row == MakeRow(form, heure_prise, stored.path)
                    df1     == concat(df0, new_row)
                    file1   == save_data(df1, file, locked)
                    after   == Reload(file1, [valid |-> TRUE, value |-> df0])
                IN  /\ photos' = stored.photos
                    /\ file' = file1
                    /\ msgs' = (IF locked THEN {"ecriture_impossible"} ELSE {})
                                 \cup {"prise_enregistree"}
                    /\ cache' = after.cache
                    /\ df' = after.df
        /\ UNCHANGED <<now, field_value, parsed>>

(* The form "form_edit_prise", submitted for the row selected_id (rows are *)
(* counted from 1 here, from 0 in the code).  The form is not rendered     *)
(* when df.empty.                                                          *)
EditCatch(selected_id, form, photo_edit, locked) ==
    LET df0 == cached_load_data(file, cache)
        heure_edit == parse_time_from_text(form.heure_str)
    IN  /\ df0.rows # <<>>
        /\ selected_id \in 1..Len(df0.rows)
        /\ IF ~heure_edit.ok
           THEN /\ msgs' = {"heure_invalide"}
                /\ df' = df0
                /\ cache' = [valid |-> TRUE, value |-> df0]
                /\ UNCHANGED <<file, photos>>
           ELSE LET row     == df0.rows[selected_id]
                    stored  == IF photo_edit # NoUpload
                               THEN enregistrer_photo(photo_edit, now, photos)
                               ELSE [path   |-> row["photo_fichier"],
                                     photos |-> photos]
                    edited  == MakeRow(form, heure_edit, stored.path)
                    df1     == SetRow(df0, selected_id, edited)
                    file1   == save_data(df1, file, locked)
                    after   == Reload(file1, [valid |-> TRUE, value |-> df0])
                IN  /\ photos' = stored.photos
                    /\ file' = file1
                    /\ msgs' = (IF locked THEN {"ecriture_impossible"} ELSE {})
                                 \cup {"prise_mise_a_jour"}
                    /\ cache' = after.cache
                    /\ df' = after.df
        /\ UNCHANGED <<now, field_value, parsed>>

(* The button "Supprimer cette prise", then the run st.rerun() starts.     *)
(* msgs holds what the handler reported before the rerun.                  *)
DeleteCatch(selected_id, locked) ==
    LET df0 == cached_load_data(file, cache)
    IN  /\ df0.rows # <<>>
        /\ selected_id \in 1..Len(df0.rows)
        /\ LET df1   == DropRow(df0, selected_id)
               file1 == save_data(df1, file, locked)
               after == Reload(file1, [valid |-> TRUE, value |-> df0])
           IN  /\ file' = file1
               /\ msgs' = (IF locked THEN {"ecriture_impossible"} ELSE {})
                            \cup {"prise_supprimee"}
               /\ cache' = after.cache
               /\ df' = after.df
        /\ UNCHANGED <<photos, now, field_value, parsed>>

(* The catch log: every form, with and without a photo, every outcome of  *)
(* the write, within one second of the clock.                              *)
Next ==
    \/ Visit
    \/ \E form \in Forms, photo_new \in Uploads, locked \in BOOLEAN :
           AddCatch(form, photo_new, locked)
    \/ \E selected_id \in 1..MaxRows, form \in Forms, photo_edit \in Uploads,
          locked \in BOOLEAN :
           EditCatch(selected_id, form, photo_edit, locked)
    \/ \E selected_id \in 1..MaxRows, locked \in BOOLEAN :
           DeleteCatch(selected_id, locked)

Spec == Init /\ [][Next]_vars

(* The photos directory: the clock advances, and the forms differ by      *)
(* their photo alone.  The store starts empty.                             *)
PhotoForms == {form \in Forms : form.espece = T_Bar /\ form.heure_str = T_7_5}

InitPhotos == Init /\ file = NoFile

NextPhotos ==
    \/ Tick
    \/ Visit
    \/ \E form \in PhotoForms, photo_new \in Uploads, locked \in BOOLEAN :
           AddCatch(form, photo_new, locked)
    \/ \E selected_id \in 1..MaxRows, form \in PhotoForms,
          photo_edit \in Uploads, locked \in BOOLEAN :
           EditCatch(selected_id, form, photo_edit, locked)
    \/ \E selected_id \in 1..MaxRows, locked \in BOOLEAN :
           DeleteCatch(selected_id, locked)

SpecPhotos == InitPhotos /\ [][NextPhotos]_vars

---------------------------------------------------------------------------
(* parse_time_from_text on every text of at most MaxLen characters: the   *)
(* text is typed into "Heure (HH:MM)" a character at a time, then parsed.  *)

TypeChar(c) ==
    /\ parsed = NotParsed
    /\ Len(field_value) < MaxLen
    /\ field_value' = Append(field_value, c)
    /\ UNCHANGED <<file, cache, df, photos, now, msgs, parsed>>

ParseField ==
    /\ parsed = NotParsed
    /\ parsed' = parse_time_from_text(field_value)
    /\ UNCHANGED <<file, cache, df, photos, now, msgs, field_value>>

InitParse == Init /\ file = NoFile

NextParse == (\E c \in Alphabet : TypeChar(c)) \/ ParseField

SpecParse == InitParse /\ [][NextParse]_vars

---------------------------------------------------------------------------
(* Properties. *)

(* load(): what load_data() returns in the current state. *)
Loaded == cached_load_data(file, cache)

(* The table the file holds. *)
Persisted == load_data(file)

(* C10's reading of a user-entered time: the text trimmed, exactly two     *)
(* colon-separated components, each zero-padded to two digits, an hour in  *)
(* 0..23 and a minute in 0..59.                                            *)
PadTwo(s) == IF Len(s) = 0 THEN <<"0", "0">>
             ELSE IF Len(s) = 1 THEN <<"0">> \o s
             ELSE s

IsTwoDigits(s) == Len(s) = 2 /\ s[1] \in AllDigits /\ s[2] \in AllDigits

EnteredTime(text) ==
    LET t == strip(text)
        colons == {k \in 1..Len(t) : t[k] = ":"}
    IN  IF Cardinality(colons) # 1 THEN ValueError
        ELSE LET k  == CHOOSE j \in colons : TRUE
                 hh == PadTwo(SubSeq(t, 1, k - 1))
                 mm == PadTwo(SubSeq(t, k + 1, Len(t)))
                 h  == 10 * DigitVal(hh[1]) + DigitVal(hh[2])
                 m  == 10 * DigitVal(mm[1]) + DigitVal(mm[2])
             IN  IF IsTwoDigits(hh) /\ IsTwoDigits(mm) /\ h <= 23 /\ m <= 59
                 THEN Time(h, m)
                 ELSE ValueError

(* The row an add or an edit assembles from the form and the photo path. *)
RowOf(form, path) == MakeRow(form, EnteredTime(form.heure_str), path)

PathOf(upload) == IF upload = NoUpload THEN EmptyText
                  ELSE PhotoPath(PhotoFilename(now, upload.name))

(* C1: after an add with a valid entered time whose write succeeds, load() *)
(* returns the table loaded before with one record more, the last equal to *)
(* the added record field for field, its empty strings included.           *)
C1_AppendThenLoad ==
    [][\A form \in Forms, photo_new \in Uploads :
          (AddCatch(form, photo_new, FALSE) /\ EnteredTime(form.heure_str).ok)
          => Loaded' = concat(Loaded, RowOf(form, PathOf(photo_new)))]_vars

(* C2: when the write fails with PermissionError during an add, an edit or *)
(* a delete, the failure is reported, the file is unchanged and the table  *)
(* the session continues with holds the unsaved change.                    *)
C2_UnsavedChangeKept ==
    [][/\ \A form \in Forms, photo_new \in Uploads :
             (AddCatch(form, photo_new, TRUE) /\ EnteredTime(form.heure_str).ok)
             => /\ "ecriture_impossible" \in msgs'
                /\ file' = file
                /\ df' = concat(Loaded, RowOf(form, PathOf(photo_new)))
       /\ \A selected_id \in 1..MaxRows, form \in Forms, photo_edit \in Uploads :
             (EditCatch(selected_id, form, photo_edit, TRUE)
                 /\ EnteredTime(form.heure_str).ok)
             => /\ "ecriture_impossible" \in msgs'
                /\ file' = file
                /\ df' = SetRow(Loaded, selected_id,
                                RowOf(form,
                                      IF photo_edit = NoUpload
                                      THEN Loaded.rows[selected_id]["photo_fichier"]
                                      ELSE PathOf(photo_edit)))
       /\ \A selected_id \in 1..MaxRows :
             DeleteCatch(selected_id, TRUE)
             => /\ "ecriture_impossible" \in msgs'
                /\ file' = file
                /\ df' = DropRow(Loaded, selected_id)]_vars

(* C3: an add or an edit whose entered time is not a valid HH:MM reports   *)
(* the error and changes nothing: the file, the photos directory, what     *)
(* load() returns, the memo once filled and the session's table are those  *)
(* of before, with or without a photo in the request.                      *)
C3_InvalidTimeMutatesNothing ==
    [][\A form \in Forms, upload \in Uploads, locked \in BOOLEAN :
          (/\ ~EnteredTime(form.heure_str).ok
           /\ \/ AddCatch(form, upload, locked)
              \/ \E selected_id \in 1..MaxRows :
                    EditCatch(selected_id, form, upload, locked))
          => /\ "heure_invalide" \in msgs'
             /\ file' = file
             /\ photos' = photos
             /\ Loaded' = Loaded
             /\ df' = Loaded
             /\ cache.valid => (cache' = cache /\ df' = df)]_vars

C3_Witness ==
    /\ msgs = {"heure_invalide"}
    /\ df.rows # <<>>
    /\ photos # <<>>

(* C4: a delete of the record at a valid position leaves, in the file and *)
(* in what load() returns, the table loaded before without that record:    *)
(* one record fewer, the others unchanged and in the same order.           *)
C4_DeleteRemovesOne ==
    [][\A selected_id \in 1..MaxRows, locked \in BOOLEAN :
          DeleteCatch(selected_id, locked)
          => /\ Persisted' = DropRow(Loaded, selected_id)
             /\ Loaded' = DropRow(Loaded, selected_id)]_vars

(* C5: an edit with a valid entered time whose write succeeds overwrites   *)
(* the record at the position with the submitted values and leaves the     *)
(* other records and their number as they were; the photo is replaced only *)
(* by a new upload.                                                        *)
C5_UpdateOverwritesOne ==
    [][\A selected_id \in 1..MaxRows, form \in Forms, photo_edit \in Uploads :
          (EditCatch(selected_id, form, photo_edit, FALSE)
              /\ EnteredTime(form.heure_str).ok)
          => Loaded' = SetRow(Loaded, selected_id,
                              RowOf(form,
                                    IF photo_edit = NoUpload
                                    THEN Loaded.rows[selected_id]["photo_fichier"]
                                    ELSE PathOf(photo_edit)))]_vars

(* C6: load() returns the thirteen canonical columns in canonical order,   *)
(* as do the memo and the session's table; no file loads as no record; a   *)
(* column the file lacks is loaded as empty values; and every file the     *)
(* program has written has the canonical header.                           *)
IsCanonical(d) ==
    /\ d.columns = COLUMNS
    /\ \A i \in 1..Len(d.rows) : DOMAIN d.rows[i] = Range(COLUMNS)

C6_CanonicalColumns ==
    /\ IsCanonical(Loaded)
    /\ IsCanonical(Persisted)
    /\ cache.valid => IsCanonical(cache.value) /\ IsCanonical(df)
    /\ ~file.exists => Persisted.rows = <<>>
    /\ Len(Persisted.rows) = Len(file.lines)
    /\ \A i \in 1..Len(file.lines), c \in Range(COLUMNS) :
          Persisted.rows[i][c] =
              IF c \notin Range(file.header) THEN EmptyText
              ELSE IF file.lines[i][c] = EmptyText THEN NaN
              ELSE file.lines[i][c]
    /\ file \notin InitialFiles =>
          /\ file.exists
          /\ file.header = COLUMNS
          /\ \A i \in 1..Len(file.lines) : DOMAIN file.lines[i] = Range(COLUMNS)

C6_Witness ==
    /\ file = LegacyFile
    /\ cache.valid
    /\ Len(df.rows) = 2
    /\ df.rows[1]["espece"] = T_Bar
    /\ df.rows[1]["photo_fichier"] = EmptyText

(* C7: once a run has returned control, the memo of load_data holds the    *)
(* table of the file as it is now, and so does the session's table: a      *)
(* write is followed by the clearing of the memo before the next load.     *)
C7_CacheIsPersisted ==
    cache.valid => /\ cache.value = Persisted
                   /\ Loaded = Persisted
                   /\ df = Persisted

C7_Witness ==
    /\ cache.valid
    /\ msgs = {"prise_supprimee"}
    /\ file.exists
    /\ Len(file.lines) = 1

(* C8: from an empty store, every record with a photo reference, in the    *)
(* file, in the memo and in the session's table, references a file of the  *)
(* photos directory, and no step removes a file from the directory.        *)
HasPhoto(row) == row["photo_fichier"] \notin {EmptyText, NaN}

PhotoExists(row) ==
    \E f \in DOMAIN photos : row["photo_fichier"] = PhotoPath(f)

RefsExist(rows) ==
    \A i \in 1..Len(rows) : HasPhoto(rows[i]) => PhotoExists(rows[i])

C8_PhotoRefsExist ==
    /\ [](/\ RefsExist(Persisted.rows)
          /\ RefsExist(cache.value.rows)
          /\ RefsExist(df.rows))
    /\ [][DOMAIN photos \subseteq DOMAIN photos']_vars

(* A record with a photo was deleted or had its photo replaced: the        *)
(* directory holds a file no record references, beside one that is.        *)
C8_Witness ==
    /\ \E i \in 1..Len(df.rows) : HasPhoto(df.rows[i])
    /\ \E f \in DOMAIN photos :
          \A i \in 1..Len(df.rows) : df.rows[i]["photo_fichier"] # PhotoPath(f)

C10_ParseEnteredTime ==
    parsed # NotParsed =>
        /\ parsed = EnteredTime(field_value)
        /\ field_value \in {T_7_5, T_07_05} => parsed = Time(7, 5)
        /\ field_value = T_25_99 => parsed = ValueError

C10_Witness ==
    /\ field_value = <<" ", ":", "5", " ">>
    /\ parsed = Time(0, 5)

===========================================================================
